---- MODULE Spec2Model ----
(***************************************************************************)
(* Model of the numeric core of Sim_Investimentos_VersãoWeb.py:            *)
(*   calcular_ir_regressivo, simular_investimento_detalhado,               *)
(*   calcular_sac and calcular_price.                                      *)
(*                                                                         *)
(* Python floats are modelled as exact rationals <<numerator, denominator>>*)
(* kept in lowest terms with a positive denominator.  Under Spec every     *)
(* operation is exact, so every identity checked there is an identity of   *)
(* the arithmetic the code writes down, not of its rounding.  Under        *)
(* SpecFloat the two amortization functions run with every operation       *)
(* rounded to mant_dig significant bits, to nearest, ties to even, as      *)
(* IEEE 754 does with 53 bits.  Each function is run as a small state      *)
(* machine: one action for the call (the assignments before the loop),     *)
(* one action per loop iteration, one for the code after the loop.         *)
(***************************************************************************)
EXTENDS Integers, Sequences, FiniteSets

\* ------------------------------------------------------------------------
\* Bounds of the input sets
\* ------------------------------------------------------------------------
MaxPrincipal == 3
MaxMeses == 3
MaxExtra == 4
MaxMesesIR == 26
MaxValor == 1
MaxRaiz == 3
MaxRend == 2
\* significant bits of a float under SpecFloat
MantDig == 3
\* a horizon that reaches the second year of contributions
MesesLongos == 13

\* ------------------------------------------------------------------------
\* Exact arithmetic standing for Python's float operators
\* ------------------------------------------------------------------------
Abs(x) == IF x < 0 THEN -x ELSE x

RECURSIVE GCD(_, _)
GCD(a, b) == IF b = 0 THEN a ELSE GCD(b, a % b)

\* the number n/d (d # 0), in lowest terms
Num(n, d) ==
    LET g == GCD(Abs(n), Abs(d))
        s == IF d < 0 THEN -1 ELSE 1
    IN  <<(s * n) \div g, (s * d) \div g>>

Zero == Num(0, 1)
One == Num(1, 1)

Add(a, b) == Num(a[1] * b[2] + b[1] * a[2], a[2] * b[2])
Sub(a, b) == Num(a[1] * b[2] - b[1] * a[2], a[2] * b[2])
Mul(a, b) == Num(a[1] * b[1], a[2] * b[2])
\* a / b for b # 0; Python raises ZeroDivisionError when b = 0, which the
\* callers below test before dividing
Div(a, b) == Num(a[1] * b[2], a[2] * b[1])
Lt(a, b) == a[1] * b[2] < b[1] * a[2]
Le(a, b) == a[1] * b[2] <= b[1] * a[2]

\* a ** k for a whole k (a # 0 when k < 0)
RECURSIVE Pow(_, _)
Pow(a, k) ==
    IF k = 0 THEN One
    ELSE IF k < 0 THEN Div(One, Pow(a, -k))
    ELSE Mul(a, Pow(a, k - 1))

RECURSIVE SumSeq(_, _)
\* sum of f[1..k]
SumSeq(f, k) == IF k = 0 THEN Zero ELSE Add(SumSeq(f, k - 1), f[k])

\* ------------------------------------------------------------------------
\* State
\* ------------------------------------------------------------------------
VARIABLES
    funcao,             \* the function being run
    pc,                 \* "idle", "loop", "retornou", "erro"
    excecao,            \* the exception raised when pc = "erro", else ""
    mant_dig,           \* significant bits of a float; 0: exact arithmetic
    \* parameters and locals of calcular_sac / calcular_price
    principal, taxa_mensal, meses, amort_extra_valor, meses_extra_amort,
    mes, saldo_devedor, juros_total, parcela_total,
    amortizacao_fixa, parcela_fixa, tabela,
    \* parameters and locals of simular_investimento_detalhado
    valor_inicial, tipo_aporte, aporte_mensal_base, variacao_aporte,
    aportes_customizados, taxa_anual_base, variacao_taxa_mensal, incide_ir,
    saldo, capital_total, dados_mensais,
    \* values returned by simular_investimento_detalhado / calcular_ir_regressivo
    rendimento, saldo_bruto, ir_pago, saldo_liquido, capital_investido

loanVars == <<principal, amort_extra_valor, meses_extra_amort,
              saldo_devedor, juros_total, parcela_total,
              amortizacao_fixa, parcela_fixa, tabela>>
simArgs == <<valor_inicial, tipo_aporte, aporte_mensal_base, variacao_aporte,
             aportes_customizados, taxa_anual_base, variacao_taxa_mensal,
             incide_ir>>
simLocals == <<saldo, capital_total, dados_mensais>>
simRet == <<rendimento, saldo_bruto, ir_pago, saldo_liquido, capital_investido>>
vars == <<funcao, pc, excecao, mant_dig, taxa_mensal, meses, mes,
          loanVars, simArgs, simLocals, simRet>>

\* ------------------------------------------------------------------------
\* Float operators: the exact result, rounded when mant_dig > 0
\* ------------------------------------------------------------------------
RECURSIVE Pow2(_)
Pow2(k) == IF k = 0 THEN 1 ELSE 2 * Pow2(k - 1)

RECURSIVE RoundPos(_, _, _, _)
\* a/b > 0 scaled by 2^e, rounded to p significant bits, ties to even:
\* scale until 2^(p-1) <= a/b < 2^p, then round a/b to a whole number
RoundPos(a, b, e, p) ==
    IF a >= b * Pow2(p) THEN RoundPos(a, 2 * b, e + 1, p)
    ELSE IF a < b * Pow2(p - 1) THEN RoundPos(2 * a, b, e - 1, p)
    ELSE LET q == a \div b
             r == a % b
             m == IF 2 * r > b \/ (2 * r = b /\ q % 2 = 1) THEN q + 1 ELSE q
         IN  IF e >= 0 THEN Num(m * Pow2(e), 1) ELSE Num(m, Pow2(-e))

\* the float nearest to x
Round(x) ==
    IF mant_dig = 0 \/ x[1] = 0 THEN x
    ELSE IF x[1] < 0
         THEN LET y == RoundPos(-x[1], x[2], 0, mant_dig) IN <<-y[1], y[2]>>
         ELSE RoundPos(x[1], x[2], 0, mant_dig)

FAdd(a, b) == Round(Add(a, b))
FSub(a, b) == Round(Sub(a, b))
FMul(a, b) == Round(Mul(a, b))
FDiv(a, b) == Round(Div(a, b))
FPow(a, k) == Round(Pow(a, k))

\* ------------------------------------------------------------------------
\* Input sets
\* ------------------------------------------------------------------------
Principais == {Num(p, 1) : p \in -1 .. MaxPrincipal}
TaxasMensais == {Num(-1, 2), Zero, Num(1, 2), One}
Prazos == -1 .. MaxMeses
Extras == {Num(e, 1) : e \in 0 .. MaxExtra}
MesesExtra == SUBSET (1 .. MaxMeses)
Valores == {Num(v, 1) : v \in 0 .. MaxValor}
\* monthly growth factors 1 + i with an exact annual equivalent
Raizes == {Num(k, 2) : k \in 0 .. MaxRaiz}
TaxasAnuais == {Sub(Pow(y, 12), One) : y \in Raizes}
VariacoesTaxa == {Num(-1, 2), Zero, One}
VariacoesLineares == {Zero, One}
VariacoesPercentuais == {Zero, Num(1, 2)}
\* the parsed "mes:valor" text: a mapping from some months to an amount
Customizados == UNION {[D -> {Num(2, 1)}] : D \in SUBSET (1 .. MaxMeses)}
\* the contribution settings the two callers build
Aportes ==
    [tipo : {"Fixo", "Outro"}, base : Valores, variacao : {Zero},
     custom : {<<>>}]
    \cup [tipo : {"Variacao Linear"}, base : Valores,
          variacao : VariacoesLineares, custom : {<<>>}]
    \cup [tipo : {"Variacao Percentual"}, base : Valores,
          variacao : VariacoesPercentuais, custom : {<<>>}]
    \cup [tipo : {"Aportes Customizados"}, base : Valores, variacao : {Zero},
          custom : Customizados]
\* (taxa_anual_base, variacao_taxa_mensal, meses) of a simulation: every
\* combination over the short horizons, and the long horizon with the
\* rates 0% and -100% a year held fixed
Cenarios ==
    (TaxasAnuais \X VariacoesTaxa \X Prazos)
    \cup ({Zero, Num(-1, 1)} \X {Zero} \X {MesesLongos})
MesesIR == 0 .. MaxMesesIR
Rendimentos == {Num(y, 1) : y \in -MaxRend .. MaxRend}

InitVars ==
    /\ funcao = "nenhuma"
    /\ pc = "idle"
    /\ excecao = ""
    /\ principal = Zero /\ taxa_mensal = Zero /\ meses = 0
    /\ amort_extra_valor = Zero /\ meses_extra_amort = {}
    /\ mes = 0 /\ saldo_devedor = Zero /\ juros_total = Zero
    /\ parcela_total = Zero /\ amortizacao_fixa = Zero /\ parcela_fixa = Zero
    /\ tabela = <<>>
    /\ valor_inicial = Zero /\ tipo_aporte = "Fixo"
    /\ aporte_mensal_base = Zero /\ variacao_aporte = Zero
    /\ aportes_customizados = <<>> /\ taxa_anual_base = Zero
    /\ variacao_taxa_mensal = Zero /\ incide_ir = FALSE
    /\ saldo = Zero /\ capital_total = Zero /\ dados_mensais = <<>>
    /\ rendimento = Zero /\ saldo_bruto = Zero /\ ir_pago = Zero
    /\ saldo_liquido = Zero /\ capital_investido = Zero

Init == InitVars /\ mant_dig = 0

InitFloat == InitVars /\ mant_dig = MantDig

\* ------------------------------------------------------------------------
\* calcular_sac / calcular_price: shared pieces
\* ------------------------------------------------------------------------
\* a row of the amortization table
Linha(m, juros, amortizacao, parcela, saldoDev) ==
    [Mes |-> m, Juros |-> juros, Amortizacao |-> amortizacao,
     Parcela |-> parcela, SaldoDevedor |-> saldoDev]

\* variant: the test written `< 0`
QuitadoEstrito(s) == Lt(s, Zero)

\* `if saldo_devedor <= 0`: the loan is already paid
Quitado(s) == Le(s, Zero)

\* the row appended once the loan is paid
LinhaZerada(m) == Linha(m, Zero, Zero, Zero, Zero)

\* `amort_extra_valor if mes in meses_extra_amort else 0`
ExtraDoMes(m, valor, mesesExtra) == IF m \in mesesExtra THEN valor ELSE Zero

\* variant: the balance floor left out
EstourouNunca(s) == FALSE

\* `if saldo_devedor < 0`: the subtraction overshot the balance
Estourou(s) == Lt(s, Zero)

\* what the clamp branch stores in the amortization variable:
\* saldo_devedor_anterior - extra, then `+= juros`
AmortizacaoAjustada(anterior, extra, juros) ==
    FAdd(FSub(anterior, extra), juros)

\* ------------------------------------------------------------------------
\* calcular_sac
\* ------------------------------------------------------------------------
\* one pass of the loop body for a month that starts with a balance > 0
SacPasso(anterior, m, taxa, fixa, valor, mesesExtra) ==
    LET juros == FMul(anterior, taxa)
        extra == ExtraDoMes(m, valor, mesesExtra)
        amortizacao_mes == FAdd(fixa, extra)
        tentativa == FSub(anterior, amortizacao_mes)
    IN  IF Estourou(tentativa)
        THEN LET ajustada == AmortizacaoAjustada(anterior, extra, juros)
             IN  [juros |-> juros, amortizacao |-> ajustada,
                  parcela |-> FAdd(ajustada, juros), saldo |-> Zero]
        ELSE [juros |-> juros, amortizacao |-> amortizacao_mes,
              parcela |-> FAdd(amortizacao_mes, juros), saldo |-> tentativa]

\* the call: the assignments before the loop; principal / meses raises
\* ZeroDivisionError when meses = 0
SacChamada ==
    /\ pc = "idle"
    /\ \E p \in Principais, t \in TaxasMensais, n \in Prazos,
          v \in Extras, me \in MesesExtra :
        /\ principal' = p /\ taxa_mensal' = t /\ meses' = n
        /\ amort_extra_valor' = v /\ meses_extra_amort' = me
        /\ saldo_devedor' = p
        /\ IF n = 0
           THEN /\ pc' = "erro" /\ excecao' = "ZeroDivisionError"
                /\ amortizacao_fixa' = Zero
           ELSE /\ pc' = "loop" /\ excecao' = ""
                /\ amortizacao_fixa' = FDiv(p, Num(n, 1))
    /\ funcao' = "calcular_sac"
    /\ tabela' = <<>> /\ juros_total' = Zero /\ parcela_total' = Zero
    /\ mes' = 1
    /\ UNCHANGED <<mant_dig, parcela_fixa, simArgs, simLocals, simRet>>

SacIteracao ==
    /\ funcao = "calcular_sac" /\ pc = "loop" /\ mes <= meses
    /\ IF Quitado(saldo_devedor)
       THEN /\ tabela' = Append(tabela, LinhaZerada(mes))
            /\ UNCHANGED <<saldo_devedor, juros_total, parcela_total>>
       ELSE LET r == SacPasso(saldo_devedor, mes, taxa_mensal, amortizacao_fixa,
                              amort_extra_valor, meses_extra_amort)
            IN  /\ saldo_devedor' = r.saldo
                /\ juros_total' = FAdd(juros_total, r.juros)
                /\ parcela_total' = FAdd(parcela_total, r.parcela)
                /\ tabela' = Append(tabela, Linha(mes, r.juros, r.amortizacao,
                                                  r.parcela, r.saldo))
    /\ mes' = mes + 1
    /\ UNCHANGED <<funcao, pc, excecao, mant_dig, principal, taxa_mensal, meses,
                   amort_extra_valor,
                   meses_extra_amort, amortizacao_fixa, parcela_fixa,
                   simArgs, simLocals, simRet>>

\* ------------------------------------------------------------------------
\* calcular_price
\* ------------------------------------------------------------------------
\* the annuity formula inside try/except ZeroDivisionError: 0 when the
\* denominator (1 + taxa)**meses - 1 is zero, or 0.0 is raised to a
\* negative power
ParcelaFixa(p, taxa, n) ==
    LET base == FAdd(One, taxa)
    IN  IF n < 0 /\ base = Zero THEN Zero
        ELSE LET fator == FPow(base, n)
                 den == FSub(fator, One)
             IN  IF den = Zero THEN Zero
                 ELSE FDiv(FMul(p, FMul(fator, taxa)), den)

\* variant: the column built from its parts, as calcular_sac does
PriceParcelaSoma(fixa, amortizacao, juros) == FAdd(amortizacao, juros)

\* the 'Parcela' column of a month that starts with a balance > 0
PriceParcela(fixa, amortizacao, juros) == fixa

\* variant: the extra payment left out of the total
PricePagoSemExtra(fixa, extra) == fixa

\* what a month that starts with a balance > 0 adds to parcela_total
PricePago(fixa, extra) == FAdd(fixa, extra)

\* one pass of the loop body for a month that starts with a balance > 0
PricePasso(anterior, m, taxa, fixa, valor, mesesExtra) ==
    LET juros == FMul(anterior, taxa)
        amortizacao == FSub(fixa, juros)
        extra == ExtraDoMes(m, valor, mesesExtra)
        tentativa == FSub(FSub(anterior, extra), amortizacao)
        clamp == Estourou(tentativa)
        final == IF clamp THEN AmortizacaoAjustada(anterior, extra, juros)
                          ELSE amortizacao
    IN  [juros |-> juros, amortizacao |-> final,
         parcela |-> PriceParcela(fixa, final, juros),
         pago |-> PricePago(fixa, extra),
         saldo |-> IF clamp THEN Zero ELSE tentativa]

PriceChamada ==
    /\ pc = "idle"
    /\ \E p \in Principais, t \in TaxasMensais, n \in Prazos,
          v \in Extras, me \in MesesExtra :
        /\ principal' = p /\ taxa_mensal' = t /\ meses' = n
        /\ amort_extra_valor' = v /\ meses_extra_amort' = me
        /\ saldo_devedor' = p
        /\ parcela_fixa' = ParcelaFixa(p, t, n)
    /\ funcao' = "calcular_price"
    /\ pc' = "loop" /\ excecao' = ""
    /\ tabela' = <<>> /\ juros_total' = Zero /\ parcela_total' = Zero
    /\ mes' = 1
    /\ UNCHANGED <<mant_dig, amortizacao_fixa, simArgs, simLocals, simRet>>

PriceIteracao ==
    /\ funcao = "calcular_price" /\ pc = "loop" /\ mes <= meses
    /\ IF Quitado(saldo_devedor)
       THEN /\ tabela' = Append(tabela, LinhaZerada(mes))
            /\ UNCHANGED <<saldo_devedor, juros_total, parcela_total>>
       ELSE LET r == PricePasso(saldo_devedor, mes, taxa_mensal, parcela_fixa,
                                amort_extra_valor, meses_extra_amort)
            IN  /\ saldo_devedor' = r.saldo
                /\ juros_total' = FAdd(juros_total, r.juros)
                /\ parcela_total' = FAdd(parcela_total, r.pago)
                /\ tabela' = Append(tabela, Linha(mes, r.juros, r.amortizacao,
                                                  r.parcela, r.saldo))
    /\ mes' = mes + 1
    /\ UNCHANGED <<funcao, pc, excecao, mant_dig, principal, taxa_mensal, meses,
                   amort_extra_valor,
                   meses_extra_amort, amortizacao_fixa, parcela_fixa,
                   simArgs, simLocals, simRet>>

\* `return pd.DataFrame(tabela), juros_total, parcela_total` of either method
TabelaRetorna ==
    /\ funcao \in {"calcular_sac", "calcular_price"}
    /\ pc = "loop" /\ mes > meses
    /\ pc' = "retornou"
    /\ UNCHANGED <<funcao, excecao, mant_dig, taxa_mensal, meses, mes, loanVars,
                   simArgs, simLocals, simRet>>

\* ------------------------------------------------------------------------
\* calcular_ir_regressivo
\* ------------------------------------------------------------------------
\* variant: the bracket limits tested with `<`
AliquotaEstrita(m) ==
    IF m < 6 THEN Num(225, 1000)
    ELSE IF m < 12 THEN Num(20, 100)
    ELSE IF m < 24 THEN Num(175, 1000)
    ELSE Num(15, 100)

Aliquota(m) ==
    IF m <= 6 THEN Num(225, 1000)
    ELSE IF m <= 12 THEN Num(20, 100)
    ELSE IF m <= 24 THEN Num(175, 1000)
    ELSE Num(15, 100)

calcular_ir_regressivo(m, rend) == Mul(rend, Aliquota(m))

\* a direct call of the tax calculator
IrChamada ==
    /\ pc = "idle"
    /\ \E m \in MesesIR, y \in Rendimentos :
        /\ meses' = m /\ rendimento' = y
        /\ ir_pago' = calcular_ir_regressivo(m, y)
    /\ funcao' = "calcular_ir_regressivo"
    /\ pc' = "retornou" /\ excecao' = ""
    /\ UNCHANGED <<mant_dig, taxa_mensal, mes, loanVars, simArgs, simLocals,
                   saldo_bruto, saldo_liquido, capital_investido>>

\* ------------------------------------------------------------------------
\* simular_investimento_detalhado
\* ------------------------------------------------------------------------
\* x ** (1/12) for the x whose twelfth root is one of Raizes
Raiz12(x) == CHOOSE y \in Raizes : Pow(y, 12) = x

\* variant: the `- 1` left out
TaxaMensalSemMenosUm(taxaAnual) == Raiz12(Add(One, taxaAnual))

\* (1 + taxa_anual_base) ** (1/12) - 1
TaxaMensalDe(taxaAnual) == Sub(Raiz12(Add(One, taxaAnual)), One)

\* aportes_customizados.get(mes, 0)
Get(custom, m) == IF m \in DOMAIN custom THEN custom[m] ELSE Zero

\* the if/elif chain that picks aporte_do_mes
AporteDoMes(tipo, base, variacao, custom, m) ==
    IF tipo = "Fixo" THEN base
    ELSE IF tipo = "Variacao Linear"
         THEN Add(base, Mul(Num(m - 1, 1), variacao))
    ELSE IF tipo = "Variacao Percentual"
         THEN Mul(base, Pow(Add(One, variacao), (m - 1) \div 12))
    ELSE IF tipo = "Aportes Customizados" THEN Add(base, Get(custom, m))
    ELSE base

\* variant: interest also on the contribution of the month
JurosComAporte(saldoAnterior, aporte, taxa) ==
    Mul(Add(saldoAnterior, aporte), taxa)

\* juros_do_mes = saldo * taxa_mensal
JurosDoMes(saldoAnterior, aporte, taxa) == Mul(saldoAnterior, taxa)

\* variant: the interest added to the invested capital too
CapitalComJuros(capital, aporte, juros) == Add(capital, Add(juros, aporte))

\* capital_total += aporte_do_mes
CapitalTotal(capital, aporte, juros) == Add(capital, aporte)

\* a row of dados_mensais
Registro(m, aporte, juros, saldoBruto, capital) ==
    [Mes |-> m, Aporte |-> aporte, Juros |-> juros,
     SaldoBruto |-> saldoBruto, CapitalAcumulado |-> capital]

\* df_detalhado['Aporte'].sum()
SomaAportes(dados) ==
    SumSeq([i \in 1 .. Len(dados) |-> dados[i].Aporte], Len(dados))

\* ir_pago: 0.0 unless incide_ir
IrPago(incide, n, rend) ==
    IF incide THEN calcular_ir_regressivo(n, rend) ELSE Zero

SimChamada ==
    /\ pc = "idle"
    /\ \E vi \in Valores, ap \in Aportes, c \in Cenarios, ir \in BOOLEAN :
        /\ valor_inicial' = vi /\ tipo_aporte' = ap.tipo
        /\ aporte_mensal_base' = ap.base /\ variacao_aporte' = ap.variacao
        /\ aportes_customizados' = ap.custom /\ taxa_anual_base' = c[1]
        /\ variacao_taxa_mensal' = c[2] /\ meses' = c[3] /\ incide_ir' = ir
        /\ saldo' = vi /\ capital_total' = vi
        /\ taxa_mensal' = TaxaMensalDe(c[1])
    /\ funcao' = "simular_investimento_detalhado"
    /\ pc' = "loop" /\ excecao' = ""
    /\ dados_mensais' = <<>>
    /\ mes' = 1
    /\ UNCHANGED <<mant_dig, loanVars, simRet>>

SimIteracao ==
    /\ funcao = "simular_investimento_detalhado" /\ pc = "loop" /\ mes <= meses
    /\ LET aporte_do_mes == AporteDoMes(tipo_aporte, aporte_mensal_base,
                                        variacao_aporte, aportes_customizados, mes)
           juros_do_mes == JurosDoMes(saldo, aporte_do_mes, taxa_mensal)
       IN  /\ saldo' = Add(saldo, Add(juros_do_mes, aporte_do_mes))
           /\ capital_total' = CapitalTotal(capital_total, aporte_do_mes,
                                            juros_do_mes)
           /\ taxa_mensal' = Mul(taxa_mensal, Add(One, variacao_taxa_mensal))
           /\ dados_mensais' = Append(dados_mensais,
                  Registro(mes, aporte_do_mes, juros_do_mes, saldo', capital_total'))
    /\ mes' = mes + 1
    /\ UNCHANGED <<funcao, pc, excecao, mant_dig, meses, loanVars, simArgs, simRet>>

\* the code after the loop; df_detalhado.loc[meses - 1, ...] raises KeyError
\* when the frame has no row labelled meses - 1
SimFinal ==
    /\ funcao = "simular_investimento_detalhado" /\ pc = "loop" /\ mes > meses
    /\ IF meses - 1 \notin {i - 1 : i \in 1 .. Len(dados_mensais)}
       THEN pc' = "erro" /\ excecao' = "KeyError" /\ UNCHANGED simRet
       ELSE LET bruto == dados_mensais[meses].SaldoBruto
                investido == Add(valor_inicial, SomaAportes(dados_mensais))
                rendimento_bruto == Sub(bruto, investido)
                ir == IrPago(incide_ir, meses, rendimento_bruto)
            IN  /\ saldo_bruto' = bruto
                /\ capital_investido' = investido
                /\ rendimento' = rendimento_bruto
                /\ ir_pago' = ir
                /\ saldo_liquido' = Sub(bruto, ir)
                /\ pc' = "retornou" /\ excecao' = ""
    /\ UNCHANGED <<funcao, mant_dig, taxa_mensal, meses, mes, loanVars, simArgs,
                   simLocals>>

Next ==
    \/ SacChamada \/ SacIteracao
    \/ PriceChamada \/ PriceIteracao
    \/ TabelaRetorna
    \/ IrChamada
    \/ SimChamada \/ SimIteracao \/ SimFinal

Spec == Init /\ [][Next]_vars

\* the two amortization functions under rounded arithmetic
NextFloat ==
    \/ SacChamada \/ SacIteracao
    \/ PriceChamada \/ PriceIteracao
    \/ TabelaRetorna

SpecFloat == InitFloat /\ [][NextFloat]_vars

\* ========================================================================
\* Properties
\* ========================================================================
EmSac == funcao = "calcular_sac"
EmPrice == funcao = "calcular_price"
EmSim == funcao = "simular_investimento_detalhado"
Retornou == pc = "retornou"

\* LoanParameters as the data model states them: principal > 0,
\* monthlyRate >= 0, termMonths > 0 (extraPaymentAmount >= 0 in every call)
EmprestimoValido ==
    /\ Lt(Zero, principal) /\ Le(Zero, taxa_mensal) /\ meses > 0

Linhas == 1 .. Len(tabela)

\* the balance month k starts with
SaldoAntes(k) == IF k = 1 THEN principal ELSE tabela[k - 1].SaldoDevedor

\* month k is not zero-filled: it starts with a balance > 0
MesAtivo(k) == Lt(Zero, SaldoAntes(k))

\* the extra payment of month k, if k is an extra-payment month
ExtraEm(k) == IF k \in meses_extra_amort THEN amort_extra_valor ELSE Zero

\* month k went through the balance floor
MesAjustado(k) ==
    /\ MesAtivo(k)
    /\ IF EmSac
       THEN Lt(SaldoAntes(k), Add(amortizacao_fixa, ExtraEm(k)))
       ELSE Lt(Add(SaldoAntes(k), Mul(SaldoAntes(k), taxa_mensal)),
               Add(parcela_fixa, ExtraEm(k)))

Coluna(c) == [k \in Linhas |-> tabela[k][c]]
SomaColuna(c, k) == SumSeq(Coluna(c), k)

\* C1: with principal > 0, rate >= 0, term > 0, every row of the SAC and of
\* the Price schedule has 'Saldo Devedor' >= 0.
C1_SaldoNaoNegativo ==
    ((EmSac \/ EmPrice) /\ EmprestimoValido)
        => \A k \in Linhas : Le(Zero, tabela[k].SaldoDevedor)

\* C1 witness: a returned schedule, of either method, in which an extra
\* payment larger than the balance went through the floor.
C1_Witness ==
    /\ (EmSac \/ EmPrice) /\ EmprestimoValido /\ Retornou
    /\ \E k \in Linhas :
         /\ k \in meses_extra_amort /\ MesAjustado(k)
         /\ Lt(SaldoAntes(k), amort_extra_valor)
         /\ tabela[k].SaldoDevedor = Zero

\* what month m adds to parcela_total according to the rows before it
PagoEsperado(m) ==
    IF ~MesAtivo(m) THEN Zero
    ELSE IF EmSac THEN tabela[m].Parcela
    ELSE Add(parcela_fixa, ExtraEm(m))

\* C2: once the row of month k has balance 0, every later row is all zeros
\* and the totals are those accumulated up to month k, extra-payment months
\* included.
C2_QuitadoFicaZerado ==
    ((EmSac \/ EmPrice) /\ EmprestimoValido)
        => \A k \in Linhas :
             tabela[k].SaldoDevedor = Zero
               => /\ \A j \in Linhas :
                       j > k => /\ tabela[j].Juros = Zero
                                /\ tabela[j].Amortizacao = Zero
                                /\ tabela[j].Parcela = Zero
                                /\ tabela[j].SaldoDevedor = Zero
                  /\ juros_total = SomaColuna("Juros", k)
                  /\ parcela_total =
                       SumSeq([m \in Linhas |-> PagoEsperado(m)], k)

\* C2 witness: a returned schedule closed in month k by the floor, with
\* interest charged, and a later month j that is an extra-payment month.
C2_Witness ==
    /\ (EmSac \/ EmPrice) /\ EmprestimoValido /\ Retornou
    /\ Lt(Zero, taxa_mensal) /\ Lt(Zero, amort_extra_valor)
    /\ \E k, j \in Linhas :
         /\ k < j /\ j \in meses_extra_amort
         /\ MesAtivo(k) /\ tabela[k].SaldoDevedor = Zero

\* C3 (as claimed): in calcular_sac, a month whose scheduled amortization
\* overshoots the balance gets amortization = previous balance - extra,
\* balance 0, interest = previous balance * rate, payment = amortization +
\* interest.
C3_SacClampClaimed ==
    (EmSac /\ EmprestimoValido)
        => \A k \in Linhas :
             MesAjustado(k)
               => /\ tabela[k].Juros = Mul(SaldoAntes(k), taxa_mensal)
                  /\ tabela[k].Amortizacao = Sub(SaldoAntes(k), ExtraEm(k))
                  /\ tabela[k].SaldoDevedor = Zero
                  /\ tabela[k].Parcela =
                       Add(tabela[k].Amortizacao, tabela[k].Juros)

\* C4 (as claimed): the 'Amortizacao' column of a returned SAC schedule sums
\* to principal.
C4_SacSomaClaimed ==
    (EmSac /\ EmprestimoValido /\ Retornou)
        => SomaColuna("Amortizacao", Len(tabela)) = principal

\* the extra payments applied in months that start with a balance > 0
ExtrasAplicados ==
    SumSeq([m \in Linhas |-> IF MesAtivo(m) THEN ExtraEm(m) ELSE Zero],
           Len(tabela))

\* C5 (as claimed): with rate > 0, the 'Amortizacao' column of a returned
\* Price schedule plus the extras applied sums to principal.
C5_PriceSomaClaimed ==
    (EmPrice /\ EmprestimoValido /\ Lt(Zero, taxa_mensal) /\ Retornou)
        => Add(SomaColuna("Amortizacao", Len(tabela)), ExtrasAplicados)
             = principal

\* C6: in calcular_price every row of a month that starts with a balance > 0
\* (floor month and extra-payment months included) reports 'Parcela' equal
\* to the annuity payment computed before month 1.
C6_ParcelaSempreFixa ==
    EmPrice
        => /\ parcela_fixa = ParcelaFixa(principal, taxa_mensal, meses)
           /\ \A k \in Linhas : MesAtivo(k) => tabela[k].Parcela = parcela_fixa

\* C6 witness: a returned Price schedule with interest whose payoff month is
\* an extra-payment month that went through the floor, and whose row still
\* shows the annuity payment although amortization + interest differs.
C6_Witness ==
    /\ EmPrice /\ EmprestimoValido /\ Retornou /\ Lt(Zero, taxa_mensal)
    /\ \E k \in Linhas :
         /\ MesAjustado(k) /\ k \in meses_extra_amort
         /\ tabela[k].Parcela = parcela_fixa
         /\ Add(tabela[k].Amortizacao, tabela[k].Juros) # parcela_fixa

\* the extra-payment months that occur while the loan is open
MesesExtraAtivos == {m \in Linhas : m \in meses_extra_amort /\ MesAtivo(m)}

RECURSIVE Vezes(_, _)
\* n * x by repeated addition
Vezes(n, x) == IF n = 0 THEN Zero ELSE Add(Vezes(n - 1, x), x)

\* C7: in calcular_price, parcela_total is the sum over the months that start
\* with a balance > 0 of parcela_fixa plus the extra of that month, so it
\* exceeds the 'Parcela' column by amort_extra_valor times the number of
\* extra-payment months that occur before the loan is closed.
C7_TotalPagoPrice ==
    EmPrice
        => /\ parcela_total =
                SumSeq([m \in Linhas |->
                          IF MesAtivo(m) THEN Add(parcela_fixa, ExtraEm(m))
                                         ELSE Zero], Len(tabela))
           /\ Sub(parcela_total, SomaColuna("Parcela", Len(tabela)))
                = Vezes(Cardinality(MesesExtraAtivos), amort_extra_valor)

\* C7 witness: a returned Price schedule with a positive extra payment, one
\* extra-payment month while the loan is open and one after it is closed.
C7_Witness ==
    /\ EmPrice /\ EmprestimoValido /\ Retornou
    /\ Lt(Zero, amort_extra_valor) /\ Lt(Zero, parcela_fixa)
    /\ MesesExtraAtivos # {}
    /\ \E j \in Linhas : j \in meses_extra_amort /\ ~MesAtivo(j)

SemExtras ==
    amort_extra_valor = Zero \/ meses_extra_amort \cap (1 .. meses) = {}

\* C8 (as claimed): calcular_price with rate 0 raises nothing, uses
\* parcela_fixa = 0, every row of a month that starts with a balance > 0 has
\* interest = amortization = payment = 0, and without extra payments the
\* balance stays at principal and parcela_total = 0.
C8_PriceTaxaZeroClaimed ==
    (EmPrice /\ Lt(Zero, principal) /\ meses > 0 /\ taxa_mensal = Zero)
        => /\ pc # "erro"
           /\ parcela_fixa = Zero
           /\ Retornou => Len(tabela) = meses
           /\ \A k \in Linhas :
                MesAtivo(k) => /\ tabela[k].Juros = Zero
                               /\ tabela[k].Amortizacao = Zero
                               /\ tabela[k].Parcela = Zero
           /\ SemExtras
                => /\ \A k \in Linhas : tabela[k].SaldoDevedor = principal
                   /\ parcela_total = Zero

\* the regressive table as the specification prints it
TabelaRegressiva(m) ==
    IF m <= 6 THEN Num(225, 1000)
    ELSE IF 7 <= m /\ m <= 12 THEN Num(200, 1000)
    ELSE IF 13 <= m /\ m <= 24 THEN Num(175, 1000)
    ELSE Num(150, 1000)

\* C9: calcular_ir_regressivo(m, Y) = Y * rate(m) for every whole m and every
\* Y, negative included, with rate 22.5% up to 6 months, 20% from 7 to 12,
\* 17.5% from 13 to 24 and 15% above 24; the simulator's tax, when it
\* applies, is that value for its horizon and gross yield.
C9_TabelaRegressiva ==
    /\ (funcao = "calcular_ir_regressivo" /\ Retornou)
         => ir_pago = Mul(rendimento, TabelaRegressiva(meses))
    /\ (EmSim /\ Retornou /\ incide_ir)
         => ir_pago = Mul(rendimento, TabelaRegressiva(meses))

\* C9 witness: the calculator called at a bracket limit with a negative yield.
C9_Witness ==
    /\ funcao = "calcular_ir_regressivo" /\ Retornou
    /\ meses = 24 /\ Lt(rendimento, Zero)
    /\ ir_pago = Mul(rendimento, Num(175, 1000))

\* C10 (as claimed): every result of simular_investimento_detalhado has
\* saldo_liquido <= saldo_bruto.
C10_LiquidoClaimed ==
    (EmSim /\ Retornou) => Le(saldo_liquido, saldo_bruto)

Registros == 1 .. Len(dados_mensais)

\* the gross balance month k starts with
BrutoAntes(k) == IF k = 1 THEN valor_inicial ELSE dados_mensais[k - 1].SaldoBruto

C12_HorizonteInvalidoClaimed ==
    (EmSim /\ meses <= 0 /\ pc # "loop")
        => /\ pc = "erro" /\ excecao = "ValidationError"
           /\ dados_mensais = <<>> /\ saldo = valor_inicial

\* the loan inputs spec 7 rejects: a term <= 0, a negative principal or a
\* negative monthly rate
EmprestimoRejeitado ==
    meses <= 0 \/ Lt(principal, Zero) \/ Lt(taxa_mensal, Zero)

\* C13 (as claimed): calcular_sac and calcular_price called with a term <= 0,
\* a negative principal or a negative rate never return a schedule; the call
\* ends in a validation error raised before any row is computed.
C13_EmprestimoInvalidoClaimed ==
    ((EmSac \/ EmPrice) /\ EmprestimoRejeitado)
        => /\ ~Retornou
           /\ tabela = <<>>
           /\ pc = "erro" => excecao = "ValidationError"

\* rate_1: the monthly rate r with (1 + r)^12 = 1 + baseAnnualRate
TaxaSemente ==
    CHOOSE r \in {Sub(y, One) : y \in Raizes} :
        Pow(Add(One, r), 12) = Add(One, taxa_anual_base)

\* rate_m = rate_1 * (1 + drift)^(m - 1)
TaxaDoMes(m) == Mul(TaxaSemente, Pow(Add(One, variacao_taxa_mensal), m - 1))

\* C14: the record of month m has interest = balance before month m * rate_m
\* and gross balance = balance before + interest + contribution of month m,
\* the balance before month 1 being the initial amount, rate_1 the monthly
\* equivalent of the base annual rate and rate_(m+1) = rate_m * (1 + drift);
\* so the contribution of month m earns nothing in month m and month 1 runs
\* at the undrifted rate.
C14_RecorrenciaMensal ==
    EmSim
        => /\ \A k \in Registros :
                /\ dados_mensais[k].Mes = k
                /\ dados_mensais[k].Juros = Mul(BrutoAntes(k), TaxaDoMes(k))
                /\ dados_mensais[k].SaldoBruto =
                     Add(Add(BrutoAntes(k), dados_mensais[k].Juros),
                         dados_mensais[k].Aporte)
           /\ pc = "loop" => taxa_mensal = TaxaDoMes(mes)

\* C14 witness: a returned simulation of at least three months with a
\* positive initial amount, positive contributions, a rate above 0 and a
\* drift other than 0, so that every month charges interest at another rate.
C14_Witness ==
    /\ EmSim /\ Retornou /\ meses >= 3 /\ Len(dados_mensais) = meses
    /\ Lt(Zero, valor_inicial) /\ Lt(Zero, TaxaSemente)
    /\ variacao_taxa_mensal # Zero
    /\ TaxaDoMes(2) # TaxaDoMes(1) /\ TaxaDoMes(3) # TaxaDoMes(2)
    /\ \A k \in Registros :
         /\ Lt(Zero, dados_mensais[k].Aporte)
         /\ Lt(Zero, dados_mensais[k].Juros)

\* row k is the last one with a payment other than 0
UltimaParcela(k) ==
    /\ tabela[k].Parcela # Zero
    /\ \A j \in Linhas : j > k => tabela[j].Parcela = Zero

\* C15 (as claimed): a returned SAC schedule with principal > 0, rate >= 0
\* and term > 0 has balance exactly 0 in the row of the last month, and the
\* last row with a payment other than 0 is a row with balance 0.
C15_SacQuitaClaimed ==
    (EmSac /\ EmprestimoValido /\ Retornou)
        => /\ tabela[meses].SaldoDevedor = Zero
           /\ \A k \in Linhas : UltimaParcela(k) => tabela[k].SaldoDevedor = Zero

\* C16 (as claimed): calcular_sac with principal > 0, rate >= 0 and term > 0
\* returns parcela_total = principal + juros_total, also when an extra
\* payment closes the loan through the floor branch.
C16_SacTotalPagoClaimed ==
    (EmSac /\ EmprestimoValido /\ Retornou)
        => parcela_total = Add(principal, juros_total)

\* C17 (as claimed): every row of a SAC schedule, and of a Price schedule
\* with rate > 0, has 'Amortizacao' >= 0, also the row of a month that went
\* through the floor with an extra payment larger than the balance the
\* month started with.
C17_AmortizacaoNaoNegativaClaimed ==
    (EmprestimoValido /\ (EmSac \/ (EmPrice /\ Lt(Zero, taxa_mensal))))
        => \A k \in Linhas : Le(Zero, tabela[k].Amortizacao)

\* the contribution of month m as a function of the policy alone: Fixed,
\* Linear (base + delta * (m - 1)), Percentage (base * (1 + g) ^ whole years
\* elapsed), Custom (base + the override of month m, if any)
AporteEsperado(m) ==
    CASE tipo_aporte = "Variacao Linear"
           -> Add(aporte_mensal_base, Vezes(m - 1, variacao_aporte))
      [] tipo_aporte = "Variacao Percentual"
           -> Mul(aporte_mensal_base,
                  Pow(Add(One, variacao_aporte), (m - 1) \div 12))
      [] tipo_aporte = "Aportes Customizados"
           -> IF m \in DOMAIN aportes_customizados
              THEN Add(aporte_mensal_base, aportes_customizados[m])
              ELSE aporte_mensal_base
      [] OTHER -> aporte_mensal_base

\* the initial amount plus the contributions of months 1 .. k
CapitalEsperado(k) ==
    Add(valor_inicial, SumSeq([m \in 1 .. k |-> AporteEsperado(m)], k))

\* C18: the contribution and the accumulated capital of every record and the
\* invested capital returned are functions of the initial amount, the
\* contribution policy and the horizon alone (so runs that differ only in
\* rate, drift or taxation agree on them), and the invested capital returned
\* is the accumulated capital of the last record.
C18_CapitalSoDosAportes ==
    EmSim
        => /\ \A k \in Registros :
                /\ dados_mensais[k].Aporte = AporteEsperado(k)
                /\ dados_mensais[k].CapitalAcumulado = CapitalEsperado(k)
           /\ Retornou
                => /\ capital_investido = CapitalEsperado(meses)
                   /\ capital_investido = dados_mensais[meses].CapitalAcumulado

\* C18 witness: a returned taxed simulation with contributions that change
\* from month to month, a rate above 0 and a drift other than 0, whose gross
\* balance is above the invested capital.
C18_Witness ==
    /\ EmSim /\ Retornou /\ incide_ir /\ meses >= 3
    /\ Lt(Zero, taxa_anual_base) /\ variacao_taxa_mensal # Zero
    /\ Lt(Zero, valor_inicial)
    /\ dados_mensais[1].Aporte # dados_mensais[2].Aporte
    /\ Lt(Zero, dados_mensais[1].Juros)
    /\ Lt(capital_investido, saldo_bruto)
    /\ Lt(valor_inicial, capital_investido)

====
